---- MODULE Spec2Model ----
(***************************************************************************)
(* Model of linkify's authority scanner (src/domains.rs) and of the        *)
(* email local-part character classifier (src/chars.rs).                   *)
(*                                                                         *)
(* A string is a sequence of Unicode code points (naturals).  Offsets are  *)
(* byte offsets into the UTF-8 encoding, as in the Rust code; ByteOff      *)
(* converts a 1-based code point index into the byte offset that           *)
(* str::char_indices yields for it.  Option<usize> is an integer, None     *)
(* being -1.                                                               *)
(***************************************************************************)
EXTENDS Integers, Sequences, FiniteSets

VARIABLES s, flags, pc, i, loc, v6, result, ch, verdict,
          text, config, cursor, next_start, matches

\* the state of one scan of a text by the dispatcher
dvars == <<text, config, cursor, next_start, matches>>

\* the state of one call of find_authority_end or is_email_local_char
cvars == <<s, flags, pc, i, loc, v6, result, ch, verdict>>

vars == <<s, flags, pc, i, loc, v6, result, ch, verdict,
          text, config, cursor, next_start, matches>>

(***************************************************************************)
(* Bounds of the model.                                                    *)
(***************************************************************************)
MaxLen == 3
MaxHostLen == 5
MaxBoundaryLen == 4
MaxV6Len == 4
MaxIPv4Len == 9
MaxRegLen == 5
MaxEmailLen == 5

(***************************************************************************)
(* Characters.                                                             *)
(***************************************************************************)
None == -1

Dot == 46
Hyphen == 45
Colon == 58
At == 64
Slash == 47
Underscore == 95
Tilde == 126
LBracket == 91
RBracket == 93
Question == 63
Hash == 35

SubDelims == {33, 36, 38, 39, 40, 41, 42, 43, 44, 59, 61}

IsLower(c) == c \in 97..122
IsUpper(c) == c \in 65..90
is_ascii_alphabetic(c) == IsLower(c) \/ IsUpper(c)
is_ascii_digit(c) == c \in 48..57
IsNonAscii(c) == c >= 128

\* char::is_whitespace: the Unicode White_Space property
is_whitespace(c) ==
    \/ c \in 9..13
    \/ c = 32
    \/ c = 133
    \/ c = 160
    \/ c = 5760
    \/ c \in 8192..8202
    \/ c \in {8232, 8233, 8239, 8287, 12288}

len_utf8(c) == IF c < 128 THEN 1 ELSE IF c < 2048 THEN 2 ELSE IF c < 65536 THEN 3 ELSE 4

RECURSIVE ByteLen(_)
ByteLen(str) == IF str = <<>> THEN 0 ELSE len_utf8(Head(str)) + ByteLen(Tail(str))

\* byte offset of the k-th code point (k = Len(str)+1 gives the byte length)
ByteOff(str, k) == ByteLen(SubSeq(str, 1, k - 1))

\* str::is_char_boundary: slicing at any other offset panics
is_char_boundary(str, b) == \E k \in 1..(Len(str) + 1) : ByteOff(str, k) = b

\* &str[b..], for b on a code point boundary
SliceFrom(str, b) ==
    LET k == CHOOSE k \in 1..(Len(str) + 1) : ByteOff(str, k) = b
    IN  SubSeq(str, k, Len(str))

starts_with(str, c) == Len(str) >= 1 /\ str[1] = c

RECURSIVE TakeWhileAlpha(_)
TakeWhileAlpha(str) ==
    IF str = <<>> \/ ~is_ascii_alphabetic(Head(str)) THEN <<>>
    ELSE <<Head(str)>> \o TakeWhileAlpha(Tail(str))

Take(str, n) == SubSeq(str, 1, IF Len(str) < n THEN Len(str) ELSE n)

\* a TLD check that is content with one letter
valid_tld_one(tld) == Len(Take(TakeWhileAlpha(tld), 2)) >= 1

valid_tld(tld) == Len(Take(TakeWhileAlpha(tld), 2)) >= 2

(***************************************************************************)
(* chars.rs                                                                *)
(***************************************************************************)
AText == {33, 35, 36, 37, 38, 39, 42, 43, 45, 47, 61, 63, 94, 95, 96, 123, 124, 125, 126}

\* the classifier without the whitespace exclusion
is_email_local_char_ws(c) ==
    IF IsLower(c) \/ IsUpper(c) \/ is_ascii_digit(c) \/ c \in AText THEN TRUE
    ELSE c >= 128

is_email_local_char(c) ==
    IF IsLower(c) \/ IsUpper(c) \/ is_ascii_digit(c) \/ c \in AText THEN TRUE
    ELSE c >= 128 /\ ~is_whitespace(c)

(***************************************************************************)
(* find_authority_end: locals at loop entry                                *)
(***************************************************************************)
\* locals that start with all_numeric cleared
InitLocals_nonnumeric(userinfo_allowed) ==
    [ userinfo_allowed |-> userinfo_allowed,
      end            |-> 0,
      maybe_last_dot |-> None,
      last_dot       |-> None,
      number_dots    |-> 0,
      dot_allowed    |-> FALSE,
      hyphen_allowed |-> FALSE,
      all_numeric    |-> FALSE,
      maybe_host     |-> TRUE,
      host_ended     |-> FALSE ]

InitLocals(userinfo_allowed) ==
    [ userinfo_allowed |-> userinfo_allowed,
      end            |-> 0,
      maybe_last_dot |-> None,
      last_dot       |-> None,
      number_dots    |-> 0,
      dot_allowed    |-> FALSE,
      hyphen_allowed |-> FALSE,
      all_numeric    |-> TRUE,
      maybe_host     |-> TRUE,
      host_ended     |-> FALSE ]

\* Outcome of one match arm: the locals, how control leaves the arm
\* ("next" | "break" | "return"), and the value of can_be_last.
Arm(l, ctl, can_be_last) == [loc |-> l, ctl |-> ctl, can_be_last |-> can_be_last]

\* a letter arm that forgets to commit the staged dot
ArmAlpha_nocommit(l, F) ==
    LET l1 == [l EXCEPT !.dot_allowed = TRUE, !.hyphen_allowed = TRUE,
                        !.all_numeric = FALSE]
        l2 == IF l.host_ended THEN [l1 EXCEPT !.maybe_host = FALSE] ELSE l1
    IN  Arm(l2, "next", ~F.require_host \/ ~l.host_ended)

\* a letter arm that does not notice that the host has already ended
ArmAlpha_keephost(l, F) ==
    LET l1 == [l EXCEPT !.dot_allowed = TRUE, !.hyphen_allowed = TRUE,
                        !.last_dot = l.maybe_last_dot, !.all_numeric = FALSE]
    IN  Arm(l1, "next", ~F.require_host \/ ~l.host_ended)

ArmAlpha(l, F) ==
    LET l1 == [l EXCEPT !.dot_allowed = TRUE, !.hyphen_allowed = TRUE,
                        !.last_dot = l.maybe_last_dot, !.all_numeric = FALSE]
        l2 == IF l.host_ended THEN [l1 EXCEPT !.maybe_host = FALSE] ELSE l1
    IN  Arm(l2, "next", ~F.require_host \/ ~l.host_ended)

\* a non-ASCII arm without the whitespace test
ArmNonAscii_nows(l, c, F) ==
    IF ~F.iri_parsing_enabled THEN Arm(l, "break", FALSE)
    ELSE
      LET l1 == [l EXCEPT !.dot_allowed = TRUE, !.hyphen_allowed = TRUE,
                          !.last_dot = l.maybe_last_dot, !.all_numeric = FALSE]
          l2 == IF l.host_ended THEN [l1 EXCEPT !.maybe_host = FALSE] ELSE l1
      IN  Arm(l2, "next", ~F.require_host \/ ~l.host_ended)

\* a non-ASCII arm without the IRI test
ArmNonAscii_noiri(l, c, F) ==
    IF is_whitespace(c) THEN Arm(l, "break", FALSE)
    ELSE
      LET l1 == [l EXCEPT !.dot_allowed = TRUE, !.hyphen_allowed = TRUE,
                          !.last_dot = l.maybe_last_dot, !.all_numeric = FALSE]
          l2 == IF l.host_ended THEN [l1 EXCEPT !.maybe_host = FALSE] ELSE l1
      IN  Arm(l2, "next", ~F.require_host \/ ~l.host_ended)

ArmNonAscii(l, c, F) ==
    IF ~F.iri_parsing_enabled THEN Arm(l, "break", FALSE)
    ELSE IF is_whitespace(c) THEN Arm(l, "break", FALSE)
    ELSE
      LET l1 == [l EXCEPT !.dot_allowed = TRUE, !.hyphen_allowed = TRUE,
                          !.last_dot = l.maybe_last_dot, !.all_numeric = FALSE]
          l2 == IF l.host_ended THEN [l1 EXCEPT !.maybe_host = FALSE] ELSE l1
      IN  Arm(l2, "next", ~F.require_host \/ ~l.host_ended)

\* a digit arm that commits the staged dot without counting it
ArmDigit_nocount(l, F) ==
    LET l1 == [l EXCEPT !.dot_allowed = TRUE, !.hyphen_allowed = TRUE,
                        !.last_dot = l.maybe_last_dot]
        l2 == IF l.host_ended THEN [l1 EXCEPT !.maybe_host = FALSE] ELSE l1
    IN  Arm(l2, "next", ~F.require_host \/ ~l.host_ended)

ArmDigit(l, F) ==
    LET l1 == [l EXCEPT !.dot_allowed = TRUE, !.hyphen_allowed = TRUE]
        l2 == IF l.last_dot # l.maybe_last_dot
              THEN [l1 EXCEPT !.last_dot = l.maybe_last_dot,
                              !.number_dots = l.number_dots + 1]
              ELSE l1
        l3 == IF l.host_ended THEN [l2 EXCEPT !.maybe_host = FALSE] ELSE l2
    IN  Arm(l3, "next", ~F.require_host \/ ~l.host_ended)

\* a hyphen arm that allows a hyphen at the start of a label
ArmHyphen_leading(l, F) ==
    Arm([l EXCEPT !.dot_allowed = FALSE, !.all_numeric = FALSE], "next", ~F.require_host)

ArmHyphen(l, F) ==
    LET l1 == IF ~l.hyphen_allowed THEN [l EXCEPT !.maybe_host = FALSE] ELSE l
        l2 == [l1 EXCEPT !.dot_allowed = FALSE, !.all_numeric = FALSE]
    IN  Arm(l2, "next", ~F.require_host)

\* a dot arm that lets an empty label pass
ArmDot_noend(l, off) ==
    Arm([l EXCEPT !.dot_allowed = FALSE, !.hyphen_allowed = FALSE,
                  !.maybe_last_dot = off], "next", FALSE)

\* a dot arm that commits the dot at once instead of staging it
ArmDot_commit(l, off) ==
    LET l1 == IF ~l.dot_allowed THEN [l EXCEPT !.host_ended = TRUE] ELSE l
        l2 == [l1 EXCEPT !.dot_allowed = FALSE, !.hyphen_allowed = FALSE,
                         !.maybe_last_dot = off, !.last_dot = off]
    IN  Arm(l2, "next", FALSE)

ArmDot(l, off) ==
    LET l1 == IF ~l.dot_allowed THEN [l EXCEPT !.host_ended = TRUE] ELSE l
        l2 == [l1 EXCEPT !.dot_allowed = FALSE, !.hyphen_allowed = FALSE,
                         !.maybe_last_dot = off]
    IN  Arm(l2, "next", FALSE)

ArmUnderscoreTilde(l) ==
    Arm([l EXCEPT !.maybe_host = FALSE], "next", FALSE)

ArmSubDelim(l, F) ==
    LET l1 == [l EXCEPT !.host_ended = TRUE]
    IN  IF ~l.userinfo_allowed /\ F.require_host
        THEN Arm(l1, "break", FALSE)
        ELSE Arm(l1, "next", FALSE)

\* a colon arm that never breaks
ArmColon_nobreak(l, F) ==
    Arm([l EXCEPT !.maybe_last_dot = l.last_dot], "next", FALSE)

ArmColon(l, F) ==
    IF ~l.userinfo_allowed /\ ~F.port_allowed
    THEN Arm(l, "break", FALSE)
    ELSE Arm([l EXCEPT !.maybe_last_dot = l.last_dot], "next", FALSE)

\* an '@' arm that breaks instead of returning
ArmAt_break(l) ==
    IF ~l.userinfo_allowed
    THEN Arm(l, "break", FALSE)
    ELSE Arm([l EXCEPT !.userinfo_allowed = FALSE,
                       !.maybe_last_dot = None,
                       !.last_dot = None,
                       !.dot_allowed = FALSE,
                       !.hyphen_allowed = FALSE,
                       !.all_numeric = TRUE,
                       !.maybe_host = TRUE,
                       !.host_ended = FALSE], "next", FALSE)

ArmAt(l) ==
    IF ~l.userinfo_allowed
    THEN Arm(l, "return", FALSE)
    ELSE Arm([l EXCEPT !.userinfo_allowed = FALSE,
                       !.maybe_last_dot = None,
                       !.last_dot = None,
                       !.dot_allowed = FALSE,
                       !.hyphen_allowed = FALSE,
                       !.all_numeric = TRUE,
                       !.maybe_host = TRUE,
                       !.host_ended = FALSE], "next", FALSE)

\* a slash arm that records the slash whether a host is required or not
ArmSlash_always(l, off, F) ==
    Arm([l EXCEPT !.end = off], "break", FALSE)

ArmSlash(l, off, F) ==
    IF ~F.require_host
    THEN Arm([l EXCEPT !.end = off], "break", FALSE)
    ELSE Arm(l, "break", FALSE)

ArmOther(l) == Arm(l, "break", FALSE)

\* the match on c (domains.rs 55-194)
Match(l, off, c, F) ==
    IF is_ascii_alphabetic(c) THEN ArmAlpha(l, F)
    ELSE IF IsNonAscii(c) THEN ArmNonAscii(l, c, F)
    ELSE IF is_ascii_digit(c) THEN ArmDigit(l, F)
    ELSE IF c = Hyphen THEN ArmHyphen(l, F)
    ELSE IF c = Dot THEN ArmDot(l, off)
    ELSE IF c \in {Underscore, Tilde} THEN ArmUnderscoreTilde(l)
    ELSE IF c \in SubDelims THEN ArmSubDelim(l, F)
    ELSE IF c = Colon THEN ArmColon(l, F)
    ELSE IF c = At THEN ArmAt(l)
    ELSE IF c = Slash THEN ArmSlash(l, off, F)
    ELSE ArmOther(l)

\* a loop body that advances end by one byte whatever the character
LoopBody_onebyte(l, off, c, F) ==
    LET r == Match(l, off, c, F)
    IN  IF r.ctl = "next" /\ r.can_be_last
        THEN [r EXCEPT !.loc.end = off + 1]
        ELSE r

\* one iteration of the for loop: the match, then `if can_be_last { end = ... }`
LoopBody(l, off, c, F) ==
    LET r == Match(l, off, c, F)
    IN  IF r.ctl = "next" /\ r.can_be_last
        THEN [r EXCEPT !.loc.end = off + len_utf8(c)]
        ELSE r

NoneNone == <<None, None>>

\* the slice &s[last_dot + 1..] of the TLD check is taken off a boundary
PostLoopPanics(str, l, F) ==
    /\ F.require_host
    /\ l.maybe_host
    /\ ~l.all_numeric
    /\ l.last_dot # None
    /\ ~is_char_boundary(str, l.last_dot + 1)

\* the code after the loop, validating the host whether required or not
PostLoop_always(str, l, F) ==
    IF l.maybe_host THEN
        IF l.all_numeric THEN
            IF l.number_dots # 3 THEN NoneNone ELSE <<l.end, l.last_dot>>
        ELSE
            IF l.last_dot # None /\ ~valid_tld(SliceFrom(str, l.last_dot + 1))
            THEN NoneNone
            ELSE <<l.end, l.last_dot>>
    ELSE NoneNone

\* the code after the loop (domains.rs 201-225)
PostLoop(str, l, F) ==
    IF F.require_host THEN
        IF l.maybe_host THEN
            IF l.all_numeric THEN
                IF l.number_dots # 3 THEN NoneNone ELSE <<l.end, l.last_dot>>
            ELSE
                IF l.last_dot # None /\ ~valid_tld(SliceFrom(str, l.last_dot + 1))
                THEN NoneNone
                ELSE <<l.end, l.last_dot>>
        ELSE NoneNone
    ELSE <<l.end, l.last_dot>>

(***************************************************************************)
(* find_ipv6_authority_end                                                 *)
(***************************************************************************)
InitV6 == [end |-> 1, found_close |-> FALSE]

\* an IPv6 character class that takes every lower-case letter
IsIPv6Char_az(c) ==
    \/ is_ascii_digit(c)
    \/ c \in 97..122
    \/ c \in 65..70
    \/ c = Colon
    \/ c = Dot

IsIPv6Char(c) ==
    \/ is_ascii_digit(c)
    \/ c \in 97..102
    \/ c \in 65..70
    \/ c = Colon
    \/ c = Dot

\* one iteration of the scan of s[1..]; rel is the byte offset within s[1..]
V6Body(v, rel, c) ==
    IF IsIPv6Char(c)
    THEN [v6 |-> [v EXCEPT !.end = 1 + rel + len_utf8(c)], ctl |-> "next"]
    ELSE IF c = RBracket
    THEN [v6 |-> [v EXCEPT !.end = 1 + rel + 1, !.found_close = TRUE], ctl |-> "break"]
    ELSE [v6 |-> v, ctl |-> "return"]

\* the port loop: port_end after scanning str (= s[port_start..]) from port_end
RECURSIVE PortEnd(_, _)
PortEnd(str, port_end) ==
    IF str # <<>> /\ is_ascii_digit(Head(str))
    THEN PortEnd(Tail(str), port_end + 1)
    ELSE port_end

\* the code after the bracket scan, parsing a port whether allowed or not
V6After_anyport(str, v, port_allowed) ==
    IF ~v.found_close THEN NoneNone
    ELSE
      LET rest == SliceFrom(str, v.end)
      IN  IF rest = <<>> THEN <<v.end, None>>
          ELSE IF Head(rest) = Colon THEN
              LET port_start == v.end + 1
                  port_end == PortEnd(SliceFrom(str, port_start), port_start)
              IN  IF port_end > port_start THEN <<port_end, None>> ELSE <<v.end, None>>
          ELSE <<v.end, None>>

\* the code after the bracket scan (domains.rs 265-313)
V6After(str, v, port_allowed) ==
    IF ~v.found_close THEN NoneNone
    ELSE
      LET rest == SliceFrom(str, v.end)
      IN  IF rest = <<>> THEN <<v.end, None>>
          ELSE IF Head(rest) = Colon /\ port_allowed THEN
              LET port_start == v.end + 1
                  port_end == PortEnd(SliceFrom(str, port_start), port_start)
              IN  IF port_end > port_start THEN <<port_end, None>> ELSE <<v.end, None>>
          ELSE IF Head(rest) \in {Slash, Question, Hash} THEN <<v.end, None>>
          ELSE IF Head(rest) = Colon THEN <<v.end, None>>
          ELSE <<v.end, None>>

\* one of the slices &s[end..], &s[port_start..] is taken off a boundary
V6AfterPanics(str, v, port_allowed) ==
    /\ v.found_close
    /\ \/ ~is_char_boundary(str, v.end)
       \/ /\ SliceFrom(str, v.end) # <<>>
          /\ Head(SliceFrom(str, v.end)) = Colon
          /\ port_allowed
          /\ ~is_char_boundary(str, v.end + 1)

RECURSIVE V6Loop(_, _, _)
V6Loop(str, k, v) ==
    IF k > Len(str) THEN [v6 |-> v, ret |-> FALSE]
    ELSE LET r == V6Body(v, ByteOff(str, k) - 1, str[k])
         IN  IF r.ctl = "return" THEN [v6 |-> r.v6, ret |-> TRUE]
             ELSE IF r.ctl = "break" THEN [v6 |-> r.v6, ret |-> FALSE]
             ELSE V6Loop(str, k + 1, r.v6)

find_ipv6_authority_end(str, port_allowed) ==
    LET r == V6Loop(str, 2, InitV6)
    IN  IF r.ret THEN NoneNone ELSE V6After(str, r.v6, port_allowed)

(***************************************************************************)
(* find_authority_end as a function of its arguments                       *)
(***************************************************************************)
RECURSIVE RegLoop(_, _, _, _)
RegLoop(str, k, l, F) ==
    IF k > Len(str) THEN [loc |-> l, ret |-> FALSE]
    ELSE LET r == LoopBody(l, ByteOff(str, k), str[k], F)
         IN  IF r.ctl = "return" THEN [loc |-> r.loc, ret |-> TRUE]
             ELSE IF r.ctl = "break" THEN [loc |-> r.loc, ret |-> FALSE]
             ELSE RegLoop(str, k + 1, r.loc, F)

\* a dispatch that takes the IPv6 path only when no host is required
find_authority_end_hostpolicy(str, F) ==
    IF starts_with(str, LBracket) /\ ~F.require_host
    THEN find_ipv6_authority_end(str, F.port_allowed)
    ELSE LET r == RegLoop(str, 1, InitLocals(F.userinfo_allowed), F)
         IN  IF r.ret THEN NoneNone ELSE PostLoop(str, r.loc, F)

find_authority_end(str, F) ==
    IF starts_with(str, LBracket)
    THEN find_ipv6_authority_end(str, F.port_allowed)
    ELSE LET r == RegLoop(str, 1, InitLocals(F.userinfo_allowed), F)
         IN  IF r.ret THEN NoneNone ELSE PostLoop(str, r.loc, F)

(***************************************************************************)
(* Inputs                                                                  *)
(***************************************************************************)
Strings(A, n) == UNION {[1..k -> A] : k \in 0..n}

Flags == [userinfo_allowed : BOOLEAN, require_host : BOOLEAN,
          port_allowed : BOOLEAN, iri_parsing_enabled : BOOLEAN]

\* a 1 - . _ ! : @ / space [ ] e-acute NBSP
Alphabet == {97, 49, 45, 46, 95, 33, 58, 64, 47, 32, 91, 93, 233, 160}

\* both link kinds are enabled, so that every trigger of the dispatcher is live
Kinds == {{"Url", "Email"}}

Config == [kinds : Kinds, url_must_have_scheme : BOOLEAN,
           url_can_be_iri : {TRUE}, email_domain_must_have_dot : BOOLEAN]

DefaultConfig == [kinds |-> {"Url", "Email"}, url_must_have_scheme |-> TRUE,
                  url_can_be_iri |-> TRUE, email_domain_must_have_dot |-> TRUE]

\* no text is being scanned
NoScan ==
    /\ text = <<>>
    /\ config = DefaultConfig
    /\ cursor = 1
    /\ next_start = 1
    /\ matches = <<>>

(***************************************************************************)
(* The state machine: one call of find_authority_end                       *)
(***************************************************************************)
InitCall(inputs, fs) ==
    /\ s \in inputs
    /\ flags \in fs
    /\ pc = "call"
    /\ i = 1
    /\ loc = InitLocals(flags.userinfo_allowed)
    /\ v6 = InitV6
    /\ result = NoneNone
    /\ ch = 0
    /\ verdict = FALSE
    /\ NoScan

Init == InitCall(Strings(Alphabet, MaxLen), Flags)

\* domains.rs 39-52, reg-name branch
CallRegName ==
    /\ pc = "call"
    /\ ~starts_with(s, LBracket)
    /\ pc' = "loop"
    /\ i' = 1
    /\ loc' = InitLocals(flags.userinfo_allowed)
    /\ UNCHANGED <<s, flags, v6, result, ch, verdict>>
    /\ UNCHANGED dvars

\* domains.rs 39-41 and 241-244
CallIPv6 ==
    /\ pc = "call"
    /\ starts_with(s, LBracket)
    /\ pc' = IF is_char_boundary(s, 1) THEN "v6loop" ELSE "panic"
    /\ i' = 2
    /\ v6' = InitV6
    /\ UNCHANGED <<s, flags, loc, result, ch, verdict>>
    /\ UNCHANGED dvars

\* one iteration of `for (i, c) in s.char_indices()`
Iterate ==
    /\ pc = "loop"
    /\ i <= Len(s)
    /\ LET r == LoopBody(loc, ByteOff(s, i), s[i], flags)
       IN  /\ loc' = r.loc
           /\ IF r.ctl = "return"
              THEN pc' = "done" /\ result' = NoneNone /\ i' = i
              ELSE IF r.ctl = "break"
              THEN pc' = "post" /\ result' = result /\ i' = i
              ELSE pc' = "loop" /\ result' = result /\ i' = i + 1
    /\ UNCHANGED <<s, flags, v6, ch, verdict>>
    /\ UNCHANGED dvars

\* the loop is left (iterator exhausted or break) and the result computed
Finish ==
    /\ \/ pc = "post"
       \/ pc = "loop" /\ i > Len(s)
    /\ IF PostLoopPanics(s, loc, flags)
       THEN pc' = "panic" /\ result' = result
       ELSE pc' = "done" /\ result' = PostLoop(s, loc, flags)
    /\ UNCHANGED <<s, flags, i, loc, v6, ch, verdict>>
    /\ UNCHANGED dvars

\* one iteration of `for (i, c) in s[1..].char_indices()`
V6Iterate ==
    /\ pc = "v6loop"
    /\ i <= Len(s)
    /\ LET r == V6Body(v6, ByteOff(s, i) - 1, s[i])
       IN  /\ v6' = r.v6
           /\ IF r.ctl = "return"
              THEN pc' = "done" /\ result' = NoneNone /\ i' = i
              ELSE IF r.ctl = "break"
              THEN pc' = "v6post" /\ result' = result /\ i' = i
              ELSE pc' = "v6loop" /\ result' = result /\ i' = i + 1
    /\ UNCHANGED <<s, flags, loc, ch, verdict>>
    /\ UNCHANGED dvars

V6Finish ==
    /\ \/ pc = "v6post"
       \/ pc = "v6loop" /\ i > Len(s)
    /\ IF V6AfterPanics(s, v6, flags.port_allowed)
       THEN pc' = "panic" /\ result' = result
       ELSE pc' = "done" /\ result' = V6After(s, v6, flags.port_allowed)
    /\ UNCHANGED <<s, flags, i, loc, v6, ch, verdict>>
    /\ UNCHANGED dvars

\* chars.rs: one call of is_email_local_char
Classify ==
    /\ pc = "classify"
    /\ verdict' = is_email_local_char(ch)
    /\ pc' = "classified"
    /\ UNCHANGED <<s, flags, i, loc, v6, result, ch>>
    /\ UNCHANGED dvars

Next == CallRegName \/ CallIPv6 \/ Iterate \/ Finish \/ V6Iterate \/ V6Finish

Spec == Init /\ [][Next]_vars

\* hosts: require_host = TRUE, inputs over a . - 1 : e-acute [ ]
HostAlphabet == {97, 49, 45, 46, 58, 233, 91, 93}

HostFlags == {F \in Flags : F.require_host}

InitHost == InitCall(Strings(HostAlphabet, MaxHostLen), HostFlags)

SpecHost == InitHost /\ [][Next]_vars

\* boundaries: a . space NBSP U+3000 e-acute [ ]
BoundaryAlphabet == {97, 46, 32, 160, 12288, 233, 91, 93}

InitBoundary == InitCall(Strings(BoundaryAlphabet, MaxBoundaryLen), Flags)

SpecBoundary == InitBoundary /\ [][Next]_vars

\* bracketed literals: '[' followed by 1 f g : . ] / e-acute
V6Alphabet == {49, 102, 103, 58, 46, 93, 47, 233}

InitIPv6 == InitCall({<<LBracket>> \o t : t \in Strings(V6Alphabet, MaxV6Len)}, Flags)

NextIPv6 == CallIPv6 \/ V6Iterate \/ V6Finish

SpecIPv6 == InitIPv6 /\ [][NextIPv6]_vars

\* the classifier: all of ASCII and a sample of the other planes
CharSamples == (0..127) \cup {128, 133, 160, 161, 233, 5760, 8192, 8195, 8202, 8203,
                              8232, 8233, 8239, 8287, 12288, 20013, 65279, 128512}

InitChars ==
    /\ ch \in CharSamples
    /\ verdict = FALSE
    /\ pc = "classify"
    /\ s = <<>>
    /\ flags \in {F \in Flags : ~F.userinfo_allowed /\ F.require_host
                                 /\ ~F.port_allowed /\ F.iri_parsing_enabled}
    /\ i = 1
    /\ loc = InitLocals(FALSE)
    /\ v6 = InitV6
    /\ result = NoneNone
    /\ NoScan

NextChars == Classify

SpecChars == InitChars /\ [][NextChars]_vars

NextReg == CallRegName \/ Iterate \/ Finish

\* dotted numbers with a port: 1 . :
IPv4Alphabet == {49, 46, 58}

IPv4Flags == {F \in Flags : F.require_host /\ ~F.userinfo_allowed}

InitIPv4 == InitCall(Strings(IPv4Alphabet, MaxIPv4Len), IPv4Flags)

SpecIPv4 == InitIPv4 /\ [][NextReg]_vars

\* reg-names with userinfo, port and path: a 1 . - : @ /
RegAlphabet == {97, 49, 46, 45, 58, 64, 47}

InitReg == InitCall(Strings(RegAlphabet, MaxRegLen), Flags)

SpecReg == InitReg /\ [][NextReg]_vars

\* email domains and their delimiters: a . - ! : / " [ ]
EmailAlphabet == {97, 46, 45, 33, 58, 47, 34, 91, 93}

EmailFlags == {F \in Flags : ~F.userinfo_allowed /\ F.require_host /\ ~F.port_allowed}

InitEmail == InitCall(Strings(EmailAlphabet, MaxEmailLen), EmailFlags)

SpecEmail == InitEmail /\ [][Next]_vars

(***************************************************************************)
(* The sub-scanners and the dispatcher (spec.md 4.3 - 4.6).  Positions are *)
(* 1-based code point indices; a match is emitted with byte offsets.       *)
(***************************************************************************)
MaxTextLen == 7

NoMatch == [ok |-> FALSE, start |-> 0, end |-> 0]
Found(from, to) == [ok |-> TRUE, start |-> from, end |-> to]

is_scheme_char(c) == is_ascii_alphabetic(c) \/ is_ascii_digit(c) \/ c \in {43, 45, 46}

IsAtextOrDot(c) == is_email_local_char(c) \/ c = Dot
IsRegNameChar(c) == is_ascii_alphabetic(c) \/ is_ascii_digit(c) \/ c \in {Hyphen, Dot}
IsHostChar(c, iri) ==
    is_ascii_alphabetic(c) \/ is_ascii_digit(c) \/ (c >= 128 /\ iri /\ ~is_whitespace(c))

\* a rewind that may run back to the start of the text
RewindFloor_start(lo) == 1

\* a rewind never runs back into an emitted match: it stops at next_start
RewindFloor(lo) == lo

\* leftward rewind from p - 1 over the characters of a class (ok[k] says
\* whether the character at k is in it): the start of the run that ends
\* before p
Rewind(ok, p, lo) ==
    CHOOSE l \in RewindFloor(lo)..p :
        /\ \A k \in l..(p - 1) : ok[k]
        /\ \A m \in RewindFloor(lo)..(l - 1) : \E k \in m..(p - 1) : ~ok[k]

\* the code point index of the byte offset b counted from index from
IdxAfter(str, from, b) ==
    CHOOSE k \in from..(Len(str) + 1) : ByteOff(str, k) = ByteOff(str, from) + b

Openers == {40, 91, 123}
Closers == {41, 93, 125}
OpenerOf(c) == IF c = 41 THEN 40 ELSE IF c = 93 THEN 91 ELSE 123

\* net count of the bracket pair of opener o in str[from .. to - 1]
Depth(str, from, to, o) ==
    Cardinality({k \in from..(to - 1) : str[k] = o})
        - Cardinality({k \in from..(to - 1) : OpenerOf(str[k]) = o /\ str[k] \in Closers})

IsUrlTerminator(c, iri) ==
    \/ c <= 31
    \/ c \in 127..159
    \/ is_whitespace(c)
    \/ (c >= 128 /\ ~iri)
    \/ c \in {60, 62, 34, 96, 124}

\* 4.4: extend through path, query and fragment from index k; body is where
\* the bracket counters start
RECURSIVE UrlExtend(_, _, _, _)
UrlExtend(str, body, k, iri) ==
    IF k > Len(str) THEN k
    ELSE IF IsUrlTerminator(str[k], iri) THEN k
    ELSE IF str[k] \in Closers /\ Depth(str, body, k, OpenerOf(str[k])) <= 0 THEN k
    ELSE UrlExtend(str, body, k + 1, iri)

\* 4.4: the last character of str[from .. to - 1] is dropped by tail trimming
Trimmable(str, from, to) ==
    LET c == str[to - 1]
    IN  \/ c \in {46, 44, 58, 33, 59, 63}
        \/ c = 42
        \/ c \in Closers /\ Depth(str, from, to, OpenerOf(c)) > 0
        \/ c = 39 /\ ~\E k \in from..(to - 2) : str[k] = 39

RECURSIVE TrimTail(_, _, _, _)
TrimTail(str, from, floor, to) ==
    IF to > floor /\ Trimmable(str, from, to)
    THEN TrimTail(str, from, floor, to - 1)
    ELSE to

\* 4.3: the email sub-scanner, anchored at the '@' at index p; auth is the
\* authority scanner's result on the text after the '@'
EmailFlagsOf(cfg) ==
    [userinfo_allowed |-> FALSE,
     require_host |-> cfg.email_domain_must_have_dot,
     port_allowed |-> FALSE,
     iri_parsing_enabled |-> TRUE]

EmailScan(str, p, lo, cfg, auth) ==
    LET l0 == Rewind([k \in 1..Len(str) |-> IsAtextOrDot(str[k])], p, lo)
        l == IF \E k \in l0..(p - 1) : str[k] # Dot
             THEN CHOOSE k \in l0..(p - 1) : str[k] # Dot /\ \A j \in l0..(k - 1) : str[j] = Dot
             ELSE p
    IN  IF l < p /\ str[p - 1] # Dot /\ auth[1] # None
           /\ (auth[2] # None \/ ~cfg.email_domain_must_have_dot)
        THEN Found(l, IdxAfter(str, p + 1, auth[1]))
        ELSE NoMatch

HasSlashSlash(str, p) == p + 2 <= Len(str) /\ str[p + 1] = Slash /\ str[p + 2] = Slash

\* 4.4: the schemed URL sub-scanner, anchored at the ':' of "://" at index p;
\* auth is the authority scanner's result on the text after "://"
UrlFlagsOf(cfg) ==
    [userinfo_allowed |-> TRUE,
     require_host |-> FALSE,
     port_allowed |-> TRUE,
     iri_parsing_enabled |-> cfg.url_can_be_iri]

UrlScan(str, p, lo, cfg, auth) ==
    LET sc == Rewind([k \in 1..Len(str) |-> is_scheme_char(str[k])], p, lo)
    IN  IF sc < p /\ is_ascii_alphabetic(str[sc]) /\ auth[1] # None
        THEN LET a == IdxAfter(str, p + 3, auth[1])
                 e == UrlExtend(str, a, a, cfg.url_can_be_iri)
             IN  Found(sc, TrimTail(str, a, p + 3, e))
        ELSE NoMatch

\* 4.5: the schemeless URL sub-scanner, anchored at the '.' at index p; h is
\* where the rewind over reg-name characters stopped and auth is the
\* authority scanner's result on the text from h
SchemelessFlagsOf(cfg) ==
    [userinfo_allowed |-> FALSE,
     require_host |-> TRUE,
     port_allowed |-> TRUE,
     iri_parsing_enabled |-> cfg.url_can_be_iri]

SchemelessStart(str, p, lo) ==
    Rewind([k \in 1..Len(str) |-> IsRegNameChar(str[k])], p, lo)

SchemelessScan(str, p, lo, cfg, h, auth) ==
    IF /\ p - 1 >= lo
       /\ p + 1 <= Len(str)
       /\ IsHostChar(str[p - 1], cfg.url_can_be_iri)
       /\ IsHostChar(str[p + 1], cfg.url_can_be_iri)
       /\ auth[1] # None
    THEN LET a == IdxAfter(str, h, auth[1])
         IN  IF a <= Len(str) /\ str[a] = At THEN NoMatch
             ELSE LET e == UrlExtend(str, a, a, cfg.url_can_be_iri)
                  IN  Found(h, TrimTail(str, a, a, e))
    ELSE NoMatch

\* 4.6: the trigger at the cursor
Trigger ==
    LET c == text[cursor]
    IN  IF c = At /\ "Email" \in config.kinds THEN "Email"
        ELSE IF c = Colon /\ "Url" \in config.kinds /\ HasSlashSlash(text, cursor) THEN "Url"
        ELSE IF c = Dot /\ "Url" \in config.kinds /\ ~config.url_must_have_scheme
        THEN "Schemeless"
        ELSE "None"

\* 4.6: what the dispatcher tries at the cursor
Attempt ==
    LET tr == Trigger
        from == IF tr = "Email" THEN cursor + 1
                ELSE IF tr = "Url" THEN cursor + 3
                ELSE SchemelessStart(text, cursor, next_start)
        F == IF tr = "Email" THEN EmailFlagsOf(config)
             ELSE IF tr = "Url" THEN UrlFlagsOf(config)
             ELSE SchemelessFlagsOf(config)
        auth == find_authority_end(SubSeq(text, from, Len(text)), F)
    IN  IF tr = "Email"
        THEN [kind |-> "Email", m |-> EmailScan(text, cursor, next_start, config, auth)]
        ELSE IF tr = "Url"
        THEN [kind |-> "Url", m |-> UrlScan(text, cursor, next_start, config, auth)]
        ELSE IF tr = "Schemeless"
        THEN [kind |-> "Url",
              m |-> SchemelessScan(text, cursor, next_start, config, from, auth)]
        ELSE [kind |-> "None", m |-> NoMatch]

Match_(kind, from, to) ==
    [kind |-> kind, start |-> ByteOff(text, from), end |-> ByteOff(text, to)]

\* 4.6: a sub-scanner succeeds: emit the match and move past it
Emit ==
    /\ pc = "scan"
    /\ cursor <= Len(text)
    /\ \E a \in {Attempt} :
        /\ a.m.ok
        /\ matches' = Append(matches, Match_(a.kind, a.m.start, a.m.end))
        /\ cursor' = a.m.end
        /\ next_start' = a.m.end
    /\ UNCHANGED <<text, config>>
    /\ UNCHANGED cvars

\* 4.6: no trigger at the cursor, or the sub-scanner fails: advance one
\* code point
Advance ==
    /\ pc = "scan"
    /\ cursor <= Len(text)
    /\ ~Attempt.m.ok
    /\ cursor' = cursor + 1
    /\ UNCHANGED <<text, config, next_start, matches>>
    /\ UNCHANGED cvars

\* texts over a . @ : /
ScanAlphabet == {97, 46, 64, 58, 47}

InitScan ==
    /\ text \in Strings(ScanAlphabet, MaxTextLen)
    /\ config \in Config
    /\ cursor = 1
    /\ next_start = 1
    /\ matches = <<>>
    /\ pc = "scan"
    /\ s = <<>>
    /\ flags \in {F \in Flags : ~F.userinfo_allowed /\ F.require_host
                                 /\ ~F.port_allowed /\ F.iri_parsing_enabled}
    /\ i = 1
    /\ loc = InitLocals(FALSE)
    /\ v6 = InitV6
    /\ result = NoneNone
    /\ ch = 0
    /\ verdict = FALSE

NextScan == Emit \/ Advance

SpecScan == InitScan /\ [][NextScan]_vars

TypeOK ==
    /\ pc \in {"call", "loop", "post", "v6loop", "v6post", "done", "panic", "classify", "classified", "scan"}
    /\ result \in (({None} \cup Nat) \X ({None} \cup Nat))

(***************************************************************************)
(* Properties                                                              *)
(***************************************************************************)
Done == pc = "done"
Accepted == result[1] # None
RegName == ~starts_with(s, LBracket)
EmailConfig == ~flags.userinfo_allowed /\ flags.require_host /\ ~flags.port_allowed

AsciiLetter(c) == c \in (65..90) \cup (97..122)
AsciiDigit(c) == c \in 48..57
LabelChar(c) == AsciiLetter(c) \/ AsciiDigit(c) \/ (c >= 128 /\ ~is_whitespace(c))

\* the code point index of the character at byte offset b
CharIdx(str, b) == CHOOSE k \in 1..(Len(str) + 1) : ByteOff(str, k) = b

\* the prefix str[..b], for b on a code point boundary
SliceTo(str, b) == SubSeq(str, 1, CharIdx(str, b) - 1)

\* index of the first character of str in class P, 0 if there is none
FirstIdx(str, P(_)) ==
    IF \E k \in 1..Len(str) : P(str[k])
    THEN CHOOSE k \in 1..Len(str) : P(str[k]) /\ \A j \in 1..(k - 1) : ~P(str[j])
    ELSE 0

TwoLettersAfter(str, d) ==
    LET k == CharIdx(str, d)
    IN  /\ k + 2 <= Len(str)
        /\ AsciiLetter(str[k + 1])
        /\ AsciiLetter(str[k + 2])

\* C1: with require_host in reg-name mode, a host that is not all-numeric and
\* has a committed last dot d is accepted only if the two characters directly
\* after d are ASCII letters; otherwise the result is (None, None).
C1_TldRule ==
    (Done /\ flags.require_host /\ RegName /\ ~loc.all_numeric /\ loc.last_dot # None)
        => /\ Accepted => TwoLettersAfter(s, loc.last_dot)
           /\ ~TwoLettersAfter(s, loc.last_dot) => result = NoneNone

C1_Witness ==
    /\ Done /\ flags.require_host /\ RegName
    /\ ~loc.all_numeric /\ loc.last_dot # None
    /\ Accepted
    /\ TwoLettersAfter(s, loc.last_dot)

\* C2: when the scan stops on an '@' while userinfo is not allowed, the result
\* is (None, None), whatever host prefix was scanned and whatever the flags.
C2_IllegalAt ==
    (/\ pc \in {"post", "done"}
     /\ i <= Len(s)
     /\ s[i] = At
     /\ ~loc.userinfo_allowed)
        => (Done /\ result = NoneNone)

C2_Witness ==
    /\ Done /\ RegName
    /\ i <= Len(s) /\ s[i] = At
    /\ flags.userinfo_allowed /\ ~loc.userinfo_allowed
    /\ ~flags.require_host
    /\ loc.end > 0
    /\ result = NoneNone

\* C3: with require_host and no userinfo in reg-name mode an accepted end is
\* at least 1, and an empty input or one whose first character terminates the
\* scan gives (None, None).
C3_HostRequired ==
    (Done /\ flags.require_host /\ ~flags.userinfo_allowed /\ RegName)
        => /\ Accepted => result[1] >= 1
           /\ (s = <<>> \/ i = 1) => result = NoneNone
           /\ (s # <<>> /\ (is_whitespace(s[1]) \/ s[1] = Slash
                             \/ s[1] \in SubDelims \/ s[1] = 34)) => result = NoneNone

C3_Witness ==
    /\ Done /\ flags.require_host /\ ~flags.userinfo_allowed /\ RegName
    /\ Len(s) > 1
    /\ s[1] \in SubDelims
    /\ LabelChar(s[2])
    /\ i = 1
    /\ result = NoneNone

\* C4: the first whitespace character of s, at byte index k, bounds the
\* authority: a returned end is at most k and the result is that of s[..k].
C4_WhitespaceBoundary ==
    Done =>
        LET w == FirstIdx(s, is_whitespace)
        IN  w # 0 =>
              /\ Accepted => result[1] <= ByteOff(s, w)
              /\ result = find_authority_end(SubSeq(s, 1, w - 1), flags)

C4_Witness ==
    /\ Done /\ Accepted /\ flags.iri_parsing_enabled
    /\ LET w == FirstIdx(s, is_whitespace)
       IN  /\ w > 1
           /\ s[w] >= 128
           /\ w < Len(s)
           /\ LabelChar(s[w + 1])
           /\ result[1] = ByteOff(s, w)

\* C5: with IRI parsing disabled the first non-ASCII character of s, at byte
\* index k, acts as a terminator: the result is that of s[..k] and a returned
\* end is at most k.
C5_IriDisabled ==
    (Done /\ ~flags.iri_parsing_enabled) =>
        LET n == FirstIdx(s, IsNonAscii)
        IN  n # 0 =>
              /\ result = find_authority_end(SubSeq(s, 1, n - 1), flags)
              /\ Accepted => result[1] <= ByteOff(s, n)

C5_Witness ==
    /\ Done /\ ~flags.iri_parsing_enabled /\ Accepted
    /\ LET n == FirstIdx(s, IsNonAscii)
       IN  /\ n > 1
           /\ ~is_whitespace(s[n])
           /\ n < Len(s)
           /\ result[1] = ByteOff(s, n)

HexColonDot(c) == c \in (48..57) \cup (97..102) \cup (65..70) \cup {58, 46}
IsRBracket(c) == c = 93

\* the grounds on which a bracketed literal is rejected
V6Malformed(str) ==
    LET t == Tail(str)
        j == FirstIdx(t, IsRBracket)
    IN  \/ j = 0
        \/ \E k \in 1..(j - 1) : ~HexColonDot(t[k])

\* C6: a bracketed literal is rejected exactly when it has no ']' or a
\* character outside [0-9a-fA-F:.] before the first ']'; otherwise Some(end).
C6_IPv6Rejection ==
    (Done /\ ~RegName) => (result = NoneNone <=> V6Malformed(s)) /\ (~V6Malformed(s) => Accepted)

C6_Witness ==
    /\ Done /\ ~RegName
    /\ Accepted
    /\ Len(s) >= 4
    /\ s[3] = 102

RECURSIVE DigitRun(_)
DigitRun(str) == IF str # <<>> /\ AsciiDigit(Head(str)) THEN 1 + DigitRun(Tail(str)) ELSE 0

\* number of port digits after a ':' that directly follows the ']' at index kc
PortDigits(str, kc) ==
    IF kc + 1 <= Len(str) /\ str[kc + 1] = 58
    THEN DigitRun(SubSeq(str, kc + 2, Len(str)))
    ELSE 0

\* C7: an accepted bracketed literal closed at byte j ends at j+2+n when ports
\* are allowed and ']' is followed by ':' and n >= 1 digits, at j+1 otherwise;
\* last_dot is None.
C7_IPv6End ==
    (Done /\ ~RegName /\ Accepted) =>
        LET kc == FirstIdx(s, IsRBracket)
            j == ByteOff(s, kc)
            n == PortDigits(s, kc)
        IN  result = IF flags.port_allowed /\ n >= 1
                     THEN <<j + 2 + n, None>>
                     ELSE <<j + 1, None>>

C7_Witness ==
    /\ Done /\ ~RegName /\ Accepted
    /\ flags.port_allowed
    /\ PortDigits(s, FirstIdx(s, IsRBracket)) >= 1
    /\ result[1] = Len(s)

ClaimedAText == {33, 35, 36, 37, 38, 39, 42, 43, 45, 47, 61, 63, 94, 95, 96, 123, 124, 125, 126}

\* . @ ( ) , : ; < > [ ] " \ and the whitespace the claim lists
ClaimedExcluded == {46, 64, 40, 41, 44, 58, 59, 60, 62, 91, 93, 34, 92,
                    32, 9, 10, 11, 12, 13,
                    160, 5760, 8195, 8232, 8233, 8239, 8287, 12288}

\* C8: is_email_local_char(c) holds exactly for ASCII letters and digits, the
\* listed atext punctuation and non-whitespace code points >= U+0080.
C8_EmailLocalChar ==
    pc = "classified" =>
        /\ verdict <=> \/ AsciiLetter(ch)
                       \/ AsciiDigit(ch)
                       \/ ch \in ClaimedAText
                       \/ (ch >= 128 /\ ~is_whitespace(ch))
        /\ ch \in ClaimedExcluded => ~verdict

C8_Witness ==
    /\ pc = "classified"
    /\ ch = 12288
    /\ ~verdict

WellFormedHost(p) ==
    /\ Len(p) >= 1
    /\ \A k \in 1..Len(p) : LabelChar(p[k]) \/ p[k] = 45 \/ p[k] = 46
    /\ p[1] \notin {45, 46}
    /\ p[Len(p)] \notin {45, 46}
    /\ \A k \in 1..(Len(p) - 1) :
          /\ ~(p[k] = 46 /\ p[k + 1] \in {45, 46})
          /\ ~(p[k] = 45 /\ p[k + 1] = 46)

\* C9 (as stated): with the email-domain configuration every accepted prefix
\* s[..end] is a well-formed dotted host.
C9_LabelRulesAnyInput ==
    (Done /\ EmailConfig /\ Accepted) => WellFormedHost(SliceTo(s, result[1]))

\* C9 (amended): with the email-domain configuration, for an input that does
\* not start with '[', every accepted prefix s[..end] is a well-formed dotted
\* host.
C9_LabelRules ==
    (Done /\ EmailConfig /\ RegName /\ Accepted) => WellFormedHost(SliceTo(s, result[1]))

C9_Witness ==
    /\ Done /\ EmailConfig /\ RegName /\ Accepted
    /\ \E k \in 1..Len(s) : s[k] = 45 /\ ByteOff(s, k) < result[1]
    /\ result[1] < ByteLen(s)

LastDotOf(p) ==
    IF \E k \in 1..Len(p) : p[k] = 46
    THEN ByteOff(p, CHOOSE k \in 1..Len(p) : p[k] = 46 /\ \A j \in (k + 1)..Len(p) : p[j] # 46)
    ELSE None

\* C10 (as stated): with the email-domain configuration an accepted result has
\* last_dot at the last '.' of s[..end], None exactly when there is none.
C10_LastDotAnyInput ==
    (Done /\ EmailConfig /\ Accepted) => result[2] = LastDotOf(SliceTo(s, result[1]))

\* C10 (amended): with the email-domain configuration, for an input that does
\* not start with '[', an accepted result has last_dot at the last '.' of
\* s[..end], None exactly when there is none.
C10_LastDot ==
    (Done /\ EmailConfig /\ RegName /\ Accepted) => result[2] = LastDotOf(SliceTo(s, result[1]))

C10_Witness ==
    /\ Done /\ EmailConfig /\ RegName /\ Accepted
    /\ result[2] # None
    /\ s[1] >= 128

C10_WitnessTrailingDot ==
    /\ Done /\ EmailConfig /\ RegName /\ Accepted
    /\ result[2] = None
    /\ result[1] < ByteLen(s)
    /\ s[CharIdx(s, result[1])] = 46

IsColon(c) == c = 58

\* str is digits ('.' digits)*
DottedDigits(str) ==
    /\ Len(str) >= 1
    /\ \A k \in 1..Len(str) : AsciiDigit(str[k]) \/ str[k] = 46
    /\ str[1] # 46
    /\ str[Len(str)] # 46
    /\ \A k \in 1..(Len(str) - 1) : ~(str[k] = 46 /\ str[k + 1] = 46)

\* the part of str before its first ':' (all of str if there is none)
BeforeColon(str) ==
    LET c == FirstIdx(str, IsColon)
    IN  IF c = 0 THEN str ELSE SubSeq(str, 1, c - 1)

\* str is digits ('.' digits)* optionally followed by ':' digits
IPv4Shaped(str, port_allowed) ==
    LET c == FirstIdx(str, IsColon)
    IN  /\ DottedDigits(BeforeColon(str))
        /\ c # 0 => /\ port_allowed
                    /\ c < Len(str)
                    /\ \A k \in (c + 1)..Len(str) : AsciiDigit(str[k])

CountDots(str) == Cardinality({k \in 1..Len(str) : str[k] = 46})

\* C11: with require_host and no userinfo, an input of the form
\* digits('.'digits)* [':' digits] is accepted exactly when the part before
\* the ':' has three dots; then end = len(s) and last_dot is the third dot,
\* otherwise the result is (None, None).
C11_IPv4Rule ==
    (Done /\ flags.require_host /\ ~flags.userinfo_allowed
          /\ IPv4Shaped(s, flags.port_allowed))
        => LET host == BeforeColon(s)
           IN  IF CountDots(host) = 3
               THEN result = <<Len(s), LastDotOf(host)>>
               ELSE result = NoneNone

C11_Witness ==
    /\ Done /\ flags.require_host /\ ~flags.userinfo_allowed
    /\ IPv4Shaped(s, flags.port_allowed)
    /\ FirstIdx(s, IsColon) # 0
    /\ CountDots(BeforeColon(s)) = 3
    /\ result = <<Len(s), LastDotOf(BeforeColon(s))>>

\* the loop was left on an '@' (only the return of the '@' arm does that)
StoppedAtAt == i <= Len(s) /\ s[i] = At

\* C12: with require_host = false in reg-name mode every input is accepted
\* unless the scan stops on an '@' while userinfo is not allowed.
C12_NoHostValidation ==
    (Done /\ ~flags.require_host /\ RegName)
        => /\ Accepted <=> ~(StoppedAtAt /\ ~loc.userinfo_allowed)
           /\ ~Accepted => result = NoneNone

C12_Witness ==
    /\ Done /\ ~flags.require_host /\ RegName
    /\ Len(s) = 3
    /\ s[1] = Hyphen
    /\ s[2] = Underscore
    /\ s[3] = Dot
    /\ Accepted

\* an ASCII character other than a letter, a digit, '-', '.', '_', '~', '@'
IsEmailDelim(c) ==
    /\ c < 128
    /\ ~AsciiLetter(c)
    /\ ~AsciiDigit(c)
    /\ c \notin {45, 46, 95, 126, 64}

\* C13 (as stated): with the email-domain configuration the first delimiter
\* of s, at byte index k, bounds the result: a returned end is at most k and
\* the result is that of s[..k].
C13_DelimitersAnyInput ==
    (Done /\ EmailConfig) =>
        LET k == FirstIdx(s, IsEmailDelim)
        IN  k # 0 =>
              /\ Accepted => result[1] <= ByteOff(s, k)
              /\ result = find_authority_end(SubSeq(s, 1, k - 1), flags)

\* C13 (amended): with the email-domain configuration and an input that does
\* not start with '[', the first delimiter of s, at byte index k, bounds the
\* result: a returned end is at most k and the result is that of s[..k].
C13_Delimiters ==
    (Done /\ EmailConfig /\ RegName) =>
        LET k == FirstIdx(s, IsEmailDelim)
        IN  k # 0 =>
              /\ Accepted => result[1] <= ByteOff(s, k)
              /\ result = find_authority_end(SubSeq(s, 1, k - 1), flags)

C13_Witness ==
    /\ Done /\ EmailConfig /\ RegName /\ Accepted
    /\ result[2] # None
    /\ LET k == FirstIdx(s, IsEmailDelim)
       IN  /\ k # 0
           /\ s[k] \in SubDelims
           /\ result[1] = ByteOff(s, k)

\* C14: no call panics (every slice starts on a code point boundary within
\* s), and a returned end lies within s on a code point boundary.
C14_NeverFails ==
    /\ pc # "panic"
    /\ (Done /\ Accepted) =>
          /\ 0 <= result[1]
          /\ result[1] <= ByteLen(s)
          /\ is_char_boundary(s, result[1])

C14_Witness ==
    /\ Done /\ RegName /\ Accepted
    /\ flags.require_host
    /\ result[2] # None
    /\ s[1] >= 128
    /\ result[1] = ByteLen(s)

IsAt(c) == c = 64

\* a character over which a scan with userinfo allowed continues
UserinfoChar(c, F) ==
    \/ AsciiLetter(c)
    \/ AsciiDigit(c)
    \/ c \in {45, 46, 95, 126, 58}
    \/ c \in {33, 36, 38, 39, 40, 41, 42, 43, 44, 59, 61}
    \/ (c >= 128 /\ F.iri_parsing_enabled /\ ~is_whitespace(c))

Shifted(r, n) ==
    IF r = NoneNone THEN NoneNone
    ELSE <<r[1] + n, IF r[2] = None THEN None ELSE r[2] + n>>

\* the result the userinfo reset is claimed to give for str = u + '@' + h
ResetResult(str, F) ==
    LET a == FirstIdx(str, IsAt)
        h == SubSeq(str, a + 1, Len(str))
    IN  Shifted(find_authority_end(h, [F EXCEPT !.userinfo_allowed = FALSE]),
                ByteOff(str, a + 1))

\* C16: with userinfo allowed, the result for u + '@' + h (u without '@' and
\* without a terminating character) is the result for h with userinfo not
\* allowed, shifted by len(u) + 1.
C16_UserinfoReset ==
    (Done /\ RegName /\ flags.userinfo_allowed) =>
        LET a == FirstIdx(s, IsAt)
        IN  (a # 0 /\ \A k \in 1..(a - 1) : UserinfoChar(s[k], flags))
                => result = ResetResult(s, flags)

\* index of the first character of the host: after the '@' that ended the
\* userinfo, if there was one
HostStart(str, F) ==
    IF F.userinfo_allowed /\ FirstIdx(str, IsAt) # 0 THEN FirstIdx(str, IsAt) + 1 ELSE 1

\* the dot at byte d is no dot next to an empty label
ProperDot(str, F, d) ==
    LET k == CharIdx(str, d)
    IN  /\ k <= Len(str)
        /\ str[k] = 46
        /\ k > 1 => str[k - 1] # 46
        /\ k # HostStart(str, F)
        /\ k + 1 <= Len(str)
        /\ LabelChar(str[k + 1])

\* C17 (as stated): for every input and flag combination a returned last_dot
\* indexes a '.' that is not preceded by '.', is not the first character of
\* the host and is directly followed by a label character.
C17_ProperLastDotAnyFlags ==
    (Done /\ result[2] # None) => ProperDot(s, flags, result[2])

\* C17 (amended): with require_host = true a returned last_dot indexes a '.'
\* that is not preceded by '.', is not the first character of the host and is
\* directly followed by a label character.
C17_ProperLastDot ==
    (Done /\ flags.require_host /\ result[2] # None) => ProperDot(s, flags, result[2])

C17_Witness ==
    /\ Done /\ flags.require_host /\ flags.userinfo_allowed /\ flags.port_allowed
    /\ result[2] # None
    /\ FirstIdx(s, IsAt) # 0
    /\ result[2] > ByteOff(s, FirstIdx(s, IsAt))

\* C18: with userinfo not allowed and ports allowed, once the scan has passed
\* a ':' at byte k a returned last_dot is below k.
C18_LastDotFrozen ==
    (Done /\ RegName /\ ~flags.userinfo_allowed /\ flags.port_allowed /\ result[2] # None) =>
        LET c == FirstIdx(s, IsColon)
        IN  (c # 0 /\ i > c) => result[2] < ByteOff(s, c)

\* index of the ':' that directly follows the host, 0 if there is none
PortColon(str) ==
    IF starts_with(str, LBracket)
    THEN LET kc == FirstIdx(str, IsRBracket)
         IN  IF kc # 0 /\ kc + 1 <= Len(str) /\ str[kc + 1] = 58 THEN kc + 1 ELSE 0
    ELSE FirstIdx(str, IsColon)

\* C19: with userinfo not allowed and ports allowed, every character between
\* the ':' after the host and a returned end is an ASCII digit.
C19_PortDigits ==
    (Done /\ ~flags.userinfo_allowed /\ flags.port_allowed /\ Accepted) =>
        LET c == PortColon(s)
        IN  c # 0 =>
              \A k \in (c + 1)..Len(s) : ByteOff(s, k) < result[1] => AsciiDigit(s[k])

\* C20: in reg-name mode, when the scan stops on a '/' at byte i, the end is
\* i without require_host and the result is that of s[..i] with it; what
\* follows the '/' does not matter.
C20_ClosingSlash ==
    (Done /\ RegName /\ i <= Len(s) /\ s[i] = Slash) =>
        /\ ~flags.require_host => result[1] = ByteOff(s, i)
        /\ flags.require_host => result = find_authority_end(SubSeq(s, 1, i - 1), flags)
        /\ result = find_authority_end(SubSeq(s, 1, i), flags)

C20_Witness ==
    /\ Done /\ RegName /\ ~flags.require_host
    /\ i > 2 /\ i < Len(s)
    /\ s[i] = Slash
    /\ s[i - 1] = Dot
    /\ LabelChar(s[i + 1])
    /\ result[1] = ByteOff(s, i)

\* C15: the matches emitted by one scan are in ascending order and pairwise
\* disjoint, and none is empty.
C15_NonOverlap ==
    \A k \in 1..Len(matches) :
        /\ matches[k].start < matches[k].end
        /\ k > 1 => matches[k - 1].end <= matches[k].start

C15_Witness ==
    /\ pc = "scan"
    /\ cursor > Len(text)
    /\ Len(matches) = 2
    /\ matches[1].end = matches[2].start
    /\ matches[2].kind = "Email"
    /\ is_email_local_char(text[CharIdx(text, matches[2].start) - 1])

\* the '.' at index k of str closes an empty label: it is the first character
\* or it directly follows a '.' or a '-'
EmptyLabelDot(str, k) == str[k] = 46 /\ (k = 1 \/ str[k - 1] \in {45, 46})

\* the scan has reached index j (the loop ran on it)
Reached(j) == j <= Len(s) /\ j <= i

\* C21 (as stated): with require_host=true and userinfo_allowed=false, once
\* the scan reaches a letter, a digit or a non-whitespace non-ASCII character
\* after an empty label, the result is (None, None).
C21_EndedHostAnyInput ==
    (/\ Done /\ flags.require_host /\ ~flags.userinfo_allowed
     /\ \E k \in 1..Len(s) : \E j \in (k + 1)..Len(s) :
            EmptyLabelDot(s, k) /\ Reached(j) /\ LabelChar(s[j]))
        => result = NoneNone

\* C21 (amended): with require_host=true and userinfo_allowed=false, for an
\* input that does not start with '[', once the scan reaches an ASCII letter,
\* a digit or, with iri_parsing_enabled, a non-whitespace non-ASCII character
\* after an empty label, the result is (None, None).
C21_EndedHost ==
    (/\ Done /\ flags.require_host /\ ~flags.userinfo_allowed /\ RegName
     /\ \E k \in 1..Len(s) : \E j \in (k + 1)..Len(s) :
            /\ EmptyLabelDot(s, k) /\ Reached(j) /\ LabelChar(s[j])
            /\ s[j] >= 128 => flags.iri_parsing_enabled)
        => result = NoneNone

\* "a..aa": the prefix "a" alone would be returned, the letters after the
\* empty label reject everything
C21_Witness ==
    /\ Done /\ flags.require_host /\ ~flags.userinfo_allowed /\ RegName
    /\ Len(s) >= 4
    /\ AsciiLetter(s[1]) /\ s[2] = 46 /\ EmptyLabelDot(s, 3) /\ AsciiLetter(s[4])
    /\ i > Len(s)
    /\ result = NoneNone

\* the character of str that starts at byte offset b is a '.'
DotAt(str, b) == \E k \in 1..Len(str) : ByteOff(str, k) = b /\ str[k] = 46

\* C22: the result is (None, None) or (Some(end), last_dot), never
\* (None, Some(_)); a last_dot of Some(d) is the offset of a '.' and d < end.
C22_ResultShape ==
    Done =>
        /\ result[1] = None => result[2] = None
        /\ result[2] # None => DotAt(s, result[2]) /\ result[2] < result[1]

\* a dot after a two-byte character, with text left after the end
C22_Witness ==
    /\ Done
    /\ result[2] # None
    /\ s[1] >= 128
    /\ result[2] > CharIdx(s, result[2]) - 1
    /\ result[1] < ByteLen(s)

\* C23: for an input that starts with '[' the result depends only on the
\* input and port_allowed: a call with any other userinfo_allowed,
\* require_host and iri_parsing_enabled returns the same pair.
C23_IPv6IgnoresPolicy ==
    (Done /\ starts_with(s, LBracket)) =>
        \A F \in Flags :
            F.port_allowed = flags.port_allowed => find_authority_end(s, F) = result

\* "[1.1]" with require_host=true: accepted although it has one dot and no TLD
C23_Witness ==
    /\ Done /\ starts_with(s, LBracket) /\ flags.require_host
    /\ Accepted
    /\ CountDots(s) = 1
    /\ \E k \in 1..Len(s) : AsciiDigit(s[k])

====
